---------------------------- MODULE Spec2Model ----------------------------
(***************************************************************************)
(* Anchor resolution and safe-apply engine of the AI editor add-on         *)
(* (src/Code.js): applyAIEdit, retryCommentUpdate, verifyTextLocation,     *)
(* checkDocumentChanges, getCommentState, getAIComments, sanitizeText.     *)
(*                                                                         *)
(* Texts are sequences of one-character strings.  The document body is a   *)
(* sequence of text elements (paragraphs).  The Drive comment store holds  *)
(* one comment.  Collaborator calls (Drive, DocumentApp) can fail and      *)
(* another editor can change the document between any two steps.           *)
(***************************************************************************)
EXTENDS Integers, Sequences, FiniteSets, TLC

(***************************************************************************)
(* Characters.  CTRL stands for a control character that is not white      *)
(* space (e.g. U+0007), LF for "\n" (a control character and white space), *)
(* LSEP for U+2028 / U+2029 (white space, not a control character), SP for *)
(* the space.  Everything else is a letter.                                *)
(***************************************************************************)
CTRL == "^"
LF == "N"
LSEP == "L"
SP == "_"

IsControl(ch) == ch \in {CTRL, LF}

IsSpace(ch) == ch \in {SP, LF, LSEP}

Min(a, b) == IF a < b THEN a ELSE b

Max(a, b) == IF a > b THEN a ELSE b

Clamp(n, len) == Max(0, Min(n, len))

\* String.prototype.substring(a, b) with 0-based offsets: both arguments are
\* clamped to [0, length] and swapped when a > b.
Substring(s, a, b) ==
  LET ca == Clamp(a, Len(s))
      cb == Clamp(b, Len(s))
  IN SubSeq(s, Min(ca, cb) + 1, Max(ca, cb))

RECURSIVE RemoveControls(_)
RemoveControls(s) ==
  IF s = <<>> THEN <<>>
  ELSE IF IsControl(Head(s)) THEN RemoveControls(Tail(s))
       ELSE <<Head(s)>> \o RemoveControls(Tail(s))

NormalizeSeparators(s) == [i \in 1..Len(s) |-> IF s[i] = LSEP THEN LF ELSE s[i]]

RECURSIVE TrimLeft(_)
TrimLeft(s) ==
  IF s # <<>> /\ IsSpace(Head(s)) THEN TrimLeft(Tail(s)) ELSE s

RECURSIVE TrimRight(_)
TrimRight(s) ==
  IF s # <<>> /\ IsSpace(s[Len(s)]) THEN TrimRight(SubSeq(s, 1, Len(s) - 1)) ELSE s

Trim(s) == TrimRight(TrimLeft(s))

\* A sanitizer that returns its argument.
RawText(text) == text

\* sanitizeText: strip control characters, map line separators to "\n", trim.
sanitizeText(text) == Trim(NormalizeSeparators(RemoveControls(text)))

\* replace(/\s+/g, ' '): every run of white space becomes one space.
RECURSIVE CollapseSpaces(_)
CollapseSpaces(s) ==
  IF s = <<>> THEN <<>>
  ELSE IF IsSpace(Head(s))
       THEN <<SP>> \o CollapseSpaces(TrimLeft(s))
       ELSE <<Head(s)>> \o CollapseSpaces(Tail(s))

\* The search pattern verifyTextLocation builds from the quoted text.
NormalizeOriginal(text) ==
  Trim(CollapseSpaces(NormalizeSeparators(RemoveControls(text))))


(***************************************************************************)
(* calculateSimilarity: Levenshtein distance normalised by the longer      *)
(* length.  A score is the exact fraction num/den.                         *)
(***************************************************************************)
\* One row of the distance matrix, cell by cell; each cell is computed
\* before the next one is started.
RECURSIVE LevRowFrom(_, _, _, _, _)
LevRowFrom(prev, a, ch, acc, i) ==
  IF i > Len(a) THEN acc
  ELSE LET cost == IF a[i] = ch THEN 0 ELSE 1
           v == Min(Min(prev[i + 1] + 1, acc[i] + 1), prev[i] + cost)
           next == Append(acc, v)
       IN IF Len(next) = i + 1 THEN LevRowFrom(prev, a, ch, next, i + 1) ELSE next

RECURSIVE LevRows(_, _, _, _)
LevRows(prev, a, b, j) ==
  IF j > Len(b) THEN prev
  ELSE LET row == LevRowFrom(prev, a, b[j], <<j>>, 1)
       IN IF Len(row) = Len(prev) THEN LevRows(row, a, b, j + 1) ELSE row

Levenshtein(a, b) == LevRows([i \in 1..(Len(a) + 1) |-> i - 1], a, b, 1)[Len(a) + 1]

\* String.prototype.toLowerCase on the model's alphabet ("A", "B" and "H" are
\* the upper-case letters).
ToLowerCase(s) ==
  [i \in 1..Len(s) |-> IF s[i] = "A" THEN "a" ELSE IF s[i] = "B" THEN "b"
                        ELSE IF s[i] = "H" THEN "h" ELSE s[i]]

ScoreGt(s, t) == s.num * t.den > t.num * s.den

calculateSimilarity(str1, str2) ==
  IF str1 = <<>> \/ str2 = <<>> THEN [num |-> 0, den |-> 1]
  ELSE LET n1 == ToLowerCase(Trim(CollapseSpaces(str1)))
           n2 == ToLowerCase(Trim(CollapseSpaces(str2)))
           maxLen == Max(Len(n1), Len(n2))
       IN IF n1 = n2 THEN [num |-> 1, den |-> 1]
          ELSE [num |-> maxLen - Levenshtein(n1, n2), den |-> maxLen]

(***************************************************************************)
(* The document surface: body.findText, Text.deleteText, Text.insertText.  *)
(***************************************************************************)
MatchesAt(text, pat, off) ==
  /\ off + Len(pat) <= Len(text)
  /\ \A k \in 1..Len(pat) : text[off + k] = pat[k]

\* Successive matches of the pattern inside one text element, each search
\* resuming after the previous match.
RECURSIVE FindInElement(_, _, _, _)
FindInElement(e, text, pat, from) ==
  IF pat = <<>> \/ from + Len(pat) > Len(text) THEN <<>>
  ELSE IF MatchesAt(text, pat, from)
       THEN <<[element |-> e, startOffset |-> from, endOffset |-> from + Len(pat) - 1]>>
            \o FindInElement(e, text, pat, from + Len(pat))
       ELSE FindInElement(e, text, pat, from + 1)

RECURSIVE FindAll(_, _, _)
FindAll(body, pat, e) ==
  IF e > Len(body) THEN <<>>
  ELSE FindInElement(e, body[e], pat, 0) \o FindAll(body, pat, e + 1)

\* Body.getText(): the paragraphs joined by "\n".
RECURSIVE BodyTextFrom(_, _)
BodyTextFrom(body, e) ==
  IF e > Len(body) THEN <<>>
  ELSE IF e = Len(body) THEN body[e]
       ELSE body[e] \o <<LF>> \o BodyTextFrom(body, e + 1)

BodyText(body) == BodyTextFrom(body, 1)

\* Text.deleteText(start, endInclusive) is defined for 0 <= start <= end < length.
DeleteRangeOk(text, start, endIncl) == 0 <= start /\ start <= endIncl /\ endIncl < Len(text)

DeleteRange(text, start, endIncl) ==
  SubSeq(text, 1, start) \o SubSeq(text, endIncl + 2, Len(text))

\* Text.insertText(offset, s) is defined for 0 <= offset <= length.
InsertOk(text, off) == 0 <= off /\ off <= Len(text)

InsertAt(text, off, s) == SubSeq(text, 1, off) \o s \o SubSeq(text, off + 1, Len(text))

(***************************************************************************)
(* verifyTextLocation (src/Code.js:551).                                   *)
(***************************************************************************)
ContextWindow == 50

NoLocation == [element |-> 0, startOffset |-> 0, endOffset |-> 0,
               anchorStart |-> 0, anchorEnd |-> 0]

LocationOf(m) == [element |-> m.element, startOffset |-> m.startOffset,
                  endOffset |-> m.endOffset,
                  anchorStart |-> m.startOffset, anchorEnd |-> m.endOffset]

MatchContext(body, m) ==
  LET elementText == body[m.element]
  IN Substring(elementText, Max(0, m.startOffset - ContextWindow),
               Min(Len(elementText), m.endOffset + ContextWindow + 1))

\* A loop in which a later match also replaces the best one on an equal score.
RECURSIVE LastBestMatchFrom(_, _, _, _, _)
LastBestMatchFrom(body, found, quotedContext, best, i) ==
  IF i > Len(found) THEN best
  ELSE LET sim == calculateSimilarity(MatchContext(body, found[i]), quotedContext)
       IN IF ~ScoreGt(best.score, sim) /\ ScoreGt(sim, [num |-> 7, den |-> 10])
          THEN LastBestMatchFrom(body, found, quotedContext,
                                 [has |-> TRUE, match |-> found[i], score |-> sim], i + 1)
          ELSE LastBestMatchFrom(body, found, quotedContext, best, i + 1)

\* The loop over foundElements: a later match replaces the best one only when
\* it scores strictly higher, and no match scoring 0.7 or less is kept.
RECURSIVE BestMatchFrom(_, _, _, _, _)
BestMatchFrom(body, found, quotedContext, best, i) ==
  IF i > Len(found) THEN best
  ELSE LET sim == calculateSimilarity(MatchContext(body, found[i]), quotedContext)
       IN IF ScoreGt(sim, best.score) /\ ScoreGt(sim, [num |-> 7, den |-> 10])
          THEN BestMatchFrom(body, found, quotedContext,
                             [has |-> TRUE, match |-> found[i], score |-> sim], i + 1)
          ELSE BestMatchFrom(body, found, quotedContext, best, i + 1)

\* A confidence test that admits every candidate the loop kept.
AcceptsCandidate(best) == best.has

\* A confidence test that admits the threshold value itself.
AcceptsAtThreshold(best) == best.has /\ ~ScoreGt([num |-> 4, den |-> 5], best.score)

\* if (bestMatch && bestScore > 0.8)
AcceptsBest(best) == best.has /\ ScoreGt(best.score, [num |-> 4, den |-> 5])

\* A resolver that answers the start of the first element whatever it holds.
verifyAnywhere(storeOk, cmt, body, originalText) ==
  [success |-> TRUE, error |-> "",
   location |-> LocationOf([element |-> 1, startOffset |-> 0,
                            endOffset |-> Len(NormalizeOriginal(originalText)) - 1])]

\* storeOk: validateCommentId and the fresh Drive.Comments.get both answered.
verifyTextLocation(storeOk, cmt, body, originalText) ==
  IF ~storeOk \/ ~cmt.exists THEN [success |-> FALSE, error |-> "InvalidCommentId", location |-> NoLocation]
  ELSE IF ~cmt.hasAnchor \/ ~cmt.hasQuoted
  THEN [success |-> FALSE, error |-> "MissingData", location |-> NoLocation]
  ELSE LET found == FindAll(body, NormalizeOriginal(originalText), 1)
       IN IF Len(found) = 0
          THEN [success |-> FALSE, error |-> "NotFound", location |-> NoLocation]
          ELSE IF Len(found) = 1
          THEN [success |-> TRUE, error |-> "", location |-> LocationOf(found[1])]
          ELSE LET best == BestMatchFrom(body, found, cmt.quoted,
                              [has |-> FALSE, match |-> found[1],
                               score |-> [num |-> 0, den |-> 1]], 1)
               IN IF AcceptsBest(best)
                  THEN [success |-> TRUE, error |-> "", location |-> LocationOf(best.match)]
                  ELSE [success |-> FALSE, error |-> "Ambiguous", location |-> NoLocation]

(***************************************************************************)
(* The comment store (Drive.Comments, Drive.Replies).  A comment content   *)
(* is a record: kind "AI" is an "AI: <instruction>" comment, "ACCEPTED"    *)
(* and "REJECTED" are the texts applyAIEdit writes, "OTHER" is any other   *)
(* text and "EMPTY" the empty string.                                      *)
(***************************************************************************)
ContentOf(kind, orig, new) == [kind |-> kind, orig |-> orig, new |-> new]

AIContent == ContentOf("AI", <<>>, <<>>)

OtherContent == ContentOf("OTHER", <<>>, <<>>)

EmptyContent == ContentOf("EMPTY", <<>>, <<>>)

\* COMMENT_STATE.ACCEPTED + "Changes applied successfully ... Original text ... New text"
AcceptedContent(orig, new) == ContentOf("ACCEPTED", orig, new)

\* COMMENT_STATE.REJECTED + "Changes rejected. You can edit the comment and try again."
RejectedContent == ContentOf("REJECTED", <<>>, <<>>)

\* content.trim().startsWith("AI:")
StartsWithAI(content) == content.kind = "AI"

\* JavaScript values of a "resolved" property: a boolean or undefined.
JsBool(b) == IF b THEN "true" ELSE "false"

Undefined == "undefined"

\* COMMENT_STATE, in the order `for (const state in COMMENT_STATE)` visits it.
StateMarkers == <<"ACCEPTED", "PROCESSING", "REJECTED">>

NoState == "null"

FirstMarkerIn(markers) ==
  IF StateMarkers[1] \in markers THEN StateMarkers[1]
  ELSE IF StateMarkers[2] \in markers THEN StateMarkers[2]
  ELSE IF StateMarkers[3] \in markers THEN StateMarkers[3]
  ELSE NoState

\* A scan that lets the oldest reply with a marker decide.
RECURSIVE StateFromOldest(_, _)
StateFromOldest(replies, i) ==
  IF i < 1 THEN NoState
  ELSE IF StateFromOldest(replies, i - 1) # NoState
       THEN StateFromOldest(replies, i - 1)
       ELSE FirstMarkerIn(replies[i].markers)

\* getCommentState: the replies are scanned from the last to the first; a
\* reply is modelled by the set of state markers its content includes.
RECURSIVE StateFrom(_, _)
StateFrom(replies, i) ==
  IF i < 1 THEN NoState
  ELSE IF FirstMarkerIn(replies[i].markers) # NoState
       THEN FirstMarkerIn(replies[i].markers)
       ELSE StateFrom(replies, i - 1)

getCommentState(cmt) == StateFrom(cmt.replies, Len(cmt.replies))

\* The filter of getAIComments.
IsEligible(cmt) ==
  LET state == getCommentState(cmt)
  IN /\ StartsWithAI(cmt.content)
     /\ ~cmt.resolved
     /\ cmt.hasQuoted /\ cmt.quoted # <<>>
     /\ cmt.hasAnchor
     /\ (state = NoState \/ state = "REJECTED")

getAIComments(cmt) == IF cmt.exists /\ IsEligible(cmt) THEN {cmt} ELSE {}

(***************************************************************************)
(* retryCommentUpdate (src/Code.js:140): one pass of the retry loop.       *)
(* `env` is what the store does in this pass.                              *)
(***************************************************************************)
MAX_ATTEMPTS == 3

\* What Drive can do in one pass: the fetch throws, the update throws (with
\* the write applied or not), the update answers nothing, or it echoes a
\* record whose content and resolved property may differ from the stored ones.
StoreEnvs ==
  [kind : {"getThrows", "noResponse"}, applied : {FALSE}, echoSame : {TRUE}, echoResolved : {Undefined}]
  \cup [kind : {"updateThrows"}, applied : BOOLEAN, echoSame : {TRUE}, echoResolved : {Undefined}]
  \cup [kind : {"echo"}, applied : {TRUE}, echoSame : BOOLEAN,
        echoResolved : {"true", "false", Undefined}]

\* The store answered and echoed exactly what it holds after the update.
FaithfulEnv(env, cmt) ==
  env.kind = "echo" /\ env.echoSame /\ env.echoResolved = JsBool(cmt.resolved)

\* A comparison that looks at the content only.
ContentMatches(echoContent, echoResolved, content, optResolved) == echoContent = content

\* contentMatch && resolvedMatch, both strict equalities.
EchoMatches(echoContent, echoResolved, content, optResolved) ==
  echoContent = content /\ echoResolved = optResolved

\* An attempt that submits the update without fetching the comment.
UpdateWithoutFetch(cmt, content, optResolved, env) ==
  [passed |-> FALSE, comment |-> cmt, fetched |-> FALSE, sent |-> TRUE,
   error |-> "Update API call failed"]

\* An update whose payload also sets resolved.
ResolvingUpdateAttempt(cmt, content, optResolved, env) ==
  [passed |-> TRUE, comment |-> [cmt EXCEPT !.content = content, !.resolved = TRUE],
   fetched |-> TRUE, sent |-> TRUE, error |-> ""]

\* One attempt: the comment the store holds afterwards, whether the fetch and
\* the update were made, and the error the attempt throws, "" when it passes.
UpdateAttempt(cmt, content, optResolved, env) ==
  LET updated == [cmt EXCEPT !.content = content]
  IN IF env.kind = "getThrows" \/ ~cmt.exists
     THEN [passed |-> FALSE, comment |-> cmt, fetched |-> FALSE, sent |-> FALSE,
           error |-> "Failed to get comment"]
     ELSE IF cmt.content.kind = "EMPTY" /\ optResolved = "true"
     THEN [passed |-> FALSE, comment |-> cmt, fetched |-> TRUE, sent |-> FALSE,
           error |-> "Failed to get comment"]
     ELSE IF env.kind = "updateThrows"
     THEN [passed |-> FALSE, comment |-> IF env.applied THEN updated ELSE cmt,
           fetched |-> TRUE, sent |-> TRUE, error |-> "Update API call failed"]
     ELSE IF env.kind = "noResponse"
     THEN [passed |-> FALSE, comment |-> updated, fetched |-> TRUE, sent |-> TRUE,
           error |-> "Update returned no response"]
     ELSE LET ok == EchoMatches(IF env.echoSame THEN content ELSE OtherContent,
                                env.echoResolved, content, optResolved)
          IN [passed |-> ok, comment |-> updated, fetched |-> TRUE, sent |-> TRUE,
              error |-> IF ok THEN "" ELSE "Update verification failed"]

(***************************************************************************)
(* calculateBackoffDelay (src/Code.js:122).  The delay is a double; it is  *)
(* kept as ms - below * 2^-53, which is exact for the values used here: a  *)
(* Math.random() result is 0, 1/2 or one of the doubles just below 1.      *)
(***************************************************************************)
INITIAL_DELAY_MS == 1000

MAX_DELAY_MS == 5000

JitterRange == 1000

RECURSIVE Pow2(_)
Pow2(n) == IF n = 0 THEN 1 ELSE 2 * Pow2(n - 1)

\* Round n to a multiple of unit, to the nearest one, a tie to the even one.
RoundToEven(n, unit) ==
  LET q == n \div unit
      r == n % unit
  IN IF 2 * r < unit THEN q * unit
     ELSE IF 2 * r > unit THEN (q + 1) * unit
     ELSE IF q % 2 = 0 THEN q * unit ELSE (q + 1) * unit

\* The spacing of the doubles just below x, in units of 2^-53, for
\* 512 < x <= 8192.
UlpBelow(x) ==
  IF x <= 1024 THEN 1024 ELSE IF x <= 2048 THEN 2048
  ELSE IF x <= 4096 THEN 4096 ELSE 8192

\* Math.random() * 1000 for the random value half/2 - below * 2^-53.
Jitter(rnd) ==
  [ms |-> rnd.half * (JitterRange \div 2),
   below |-> IF rnd.below = 0 THEN 0
             ELSE RoundToEven(JitterRange * rnd.below, UlpBelow(JitterRange))]

\* delay + jitter, rounded to a double.
AddRounded(delay, jitter) ==
  [ms |-> delay + jitter.ms,
   below |-> IF jitter.below = 0 THEN 0
             ELSE RoundToEven(jitter.below, UlpBelow(delay + jitter.ms))]

\* A delay that doubles without the cap.
UncappedDelay(attempt, rnd) == AddRounded(INITIAL_DELAY_MS * Pow2(attempt), Jitter(rnd))

calculateBackoffDelay(attempt, rnd) ==
  AddRounded(Min(INITIAL_DELAY_MS * Pow2(attempt), MAX_DELAY_MS), Jitter(rnd))

(***************************************************************************)
(* State.                                                                  *)
(***************************************************************************)
VARIABLES
  doc,            \* the document body: a sequence of text elements
  comment,        \* the comment held by the store
  pc,             \* position of the running applyAIEdit call
  args,           \* its arguments
  originalText,   \* its local originalText
  location,       \* its local location
  sanitizedText,  \* its local sanitizedText
  attempt,        \* the loop counter of retryCommentUpdate
  outcome,        \* how the last call ended: "true", "undefined", "throw"
  restoreError,   \* the error carries "failed to restore original text"
  hist,           \* history of the running call (observation only)
  ncalls,         \* applyAIEdit calls started
  nexternal,      \* steps taken by other actors
  retry           \* the running retryCommentUpdate call, when observed on its own

vars == <<doc, comment, pc, args, originalText, location, sanitizedText, attempt,
          outcome, restoreError, hist, ncalls, nexternal, retry>>

MaxCalls == 2

MaxExternal == 1

Quoted == <<"a", "b">>

InitDocs ==
  { << <<"a", "b">> >>,
    << <<"x", "a", "b">> >>,
    << <<"a", "b">>, <<"a", "b">> >> }

\* A quoted text with two occurrences whose contexts both score exactly 0.8.
NearQuoted == <<"a", "b", "c", "d">>

NearDoc == << <<"a", "b", "c", "d", "x">>, <<"a", "b", "c", "d", "y">> >>

\* The comments of the initial states quote a text of the document; two of
\* them have an empty quotedFileContent.value or no quotedFileContent.
InitCases ==
  {[doc |-> d, quoted |-> Quoted, hasQuoted |-> TRUE] : d \in InitDocs}
  \cup {[doc |-> NearDoc, quoted |-> NearQuoted, hasQuoted |-> TRUE]}
  \cup {[doc |-> << Quoted >>, quoted |-> <<>>, hasQuoted |-> h] : h \in BOOLEAN}

NoRetry == [active |-> FALSE]

Suggestions == { <<SP, "c", LSEP>>, <<CTRL>>, <<>> }

\* A comment id that is not a string (a number, an object).
NonStringId == "<number>"

\* A replacement that is the first character of the quoted texts.
PrefixSuggestion == <<"a">>

\* The calls made: every suggestion accepted or rejected for the comment,
\* calls with a malformed comment id, empty or not a string, and an accepted
\* replacement that is a prefix of the quoted text.
CallInputs ==
  [commentId : {"c1"}, suggestedText : Suggestions, accepted : BOOLEAN]
  \cup {[commentId |-> "", suggestedText |-> <<"c">>, accepted |-> TRUE],
        [commentId |-> NonStringId, suggestedText |-> <<"c">>, accepted |-> TRUE],
        [commentId |-> "c1", suggestedText |-> PrefixSuggestion, accepted |-> TRUE]}

NoArgs == [commentId |-> "", suggestedText |-> <<>>, accepted |-> FALSE]

NewHist(d, acceptedOk, prev) ==
  [docAtStart |-> d, interfered |-> FALSE, faults |-> FALSE, docFaults |-> FALSE,
   mutated |-> FALSE, prevCall |-> prev, eligibleAtStart |-> FALSE,
   changedBeforeMutation |-> FALSE, verifyFailed |-> FALSE, verified |-> FALSE,
   verifyText |-> <<>>, interferedAfterVerify |-> FALSE, updateExhausted |-> FALSE,
   uniqueAtStart |-> FALSE, acceptedOk |-> acceptedOk,
   locateError |-> "", storeAsked |-> FALSE, rollbackFailed |-> FALSE,
   rolledBack |-> FALSE]

Init ==
  /\ \E c \in InitCases, res \in BOOLEAN :
       /\ doc = c.doc
       /\ comment = [exists |-> TRUE, content |-> AIContent, resolved |-> res,
                     hasQuoted |-> c.hasQuoted, quoted |-> c.quoted, hasAnchor |-> TRUE,
                     replies |-> <<>>]
  /\ retry = NoRetry
  /\ pc = "idle"
  /\ args = NoArgs
  /\ originalText = <<>>
  /\ location = NoLocation
  /\ sanitizedText = <<>>
  /\ attempt = 0
  /\ outcome = "none"
  /\ restoreError = FALSE
  /\ hist = NewHist(doc, FALSE, "none")
  /\ ncalls = 0
  /\ nexternal = 0

(***************************************************************************)
(* applyAIEdit (src/Code.js:784), one action per step between two uses of  *)
(* a collaborator.                                                         *)
(***************************************************************************)
Occurrences(body, text) == FindAll(body, NormalizeOriginal(text), 1)

Start(in) ==
  /\ pc \in {"idle", "done"}
  /\ ncalls < MaxCalls
  /\ ncalls' = ncalls + 1
  /\ args' = in
  /\ pc' = "validate"
  /\ outcome' = "none"
  /\ restoreError' = FALSE
  /\ originalText' = <<>>
  /\ location' = NoLocation
  /\ sanitizedText' = <<>>
  /\ attempt' = 0
  /\ hist' = [NewHist(doc, hist.acceptedOk,
                       IF pc = "idle" THEN "none"
                       ELSE IF args.accepted THEN "accept" ELSE "reject") EXCEPT
                !.uniqueAtStart = (Len(Occurrences(doc, comment.quoted)) = 1),
                !.eligibleAtStart = IsEligible(comment)]
  /\ UNCHANGED <<retry, doc, comment, nexternal>>

\* if (!fileId || !commentId || !suggestedText) throw; validateCommentId.
MissingParameters(a) == a.commentId = "" \/ a.suggestedText = <<>>

\* A format check that passes every id.
AnyIdWellFormed(id) == TRUE

\* validateCommentId: !commentId || typeof commentId !== 'string' ||
\* commentId.length === 0 gives false before the store is asked.
WellFormedId(id) == id # "" /\ id # NonStringId

ValidateInputs ==
  /\ pc = "validate"
  /\ \E ok \in BOOLEAN :
       IF MissingParameters(args) \/ ~WellFormedId(args.commentId)
       THEN /\ ok
            /\ pc' = "done" /\ outcome' = "throw" /\ hist' = hist
       ELSE IF ok /\ comment.exists
       THEN pc' = "getComment" /\ outcome' = outcome /\ hist' = hist
       ELSE /\ pc' = "done" /\ outcome' = "throw"
            /\ hist' = [hist EXCEPT !.faults = TRUE]
  /\ UNCHANGED <<retry, doc, comment, args, originalText, location, sanitizedText, attempt,
                 restoreError, ncalls, nexternal>>

\* Checks that let a comment without a quoted text through.
RefusedUnlessUnquoted(cmt) == cmt.resolved \/ cmt.content.kind = "EMPTY"

\* Checks that let a resolved comment through.
RefusedUnlessResolved(cmt) ==
  cmt.content.kind = "EMPTY" \/ ~cmt.hasQuoted \/ cmt.quoted = <<>>

\* The checks on the fetched comment: resolved, content, quoted text.
CommentRefused(cmt) ==
  \/ cmt.resolved
  \/ cmt.content.kind = "EMPTY"
  \/ ~cmt.hasQuoted
  \/ cmt.quoted = <<>>

GetComment ==
  /\ pc = "getComment"
  /\ \E ok \in BOOLEAN :
       IF ~ok
       THEN /\ pc' = "done" /\ outcome' = "throw" /\ originalText' = originalText
            /\ hist' = [hist EXCEPT !.faults = TRUE]
       ELSE IF CommentRefused(comment)
       THEN /\ pc' = "done" /\ outcome' = "throw" /\ originalText' = originalText
            /\ hist' = hist
       ELSE /\ pc' = "locate" /\ outcome' = outcome
            /\ originalText' = comment.quoted
            /\ hist' = hist
  /\ UNCHANGED <<retry, doc, comment, args, location, sanitizedText, attempt,
                 restoreError, ncalls, nexternal>>

\* A branch that sends every call down the reject path.
NeverAcceptBranch(a) == FALSE

\* A branch that sends every call down the accept path.
AlwaysAcceptBranch(a) == TRUE

\* if (accepted) { ... } else { ... }
TakesAcceptBranch(a) == a.accepted

VerifyLocation ==
  /\ pc = "locate"
  /\ \E ok \in BOOLEAN :
       LET r == verifyTextLocation(ok, comment, doc, originalText)
           san == sanitizeText(args.suggestedText)
       IN /\ hist' = [hist EXCEPT !.faults = @ \/ ~ok, !.locateError = r.error]
          /\ IF ~r.success \/ san = <<>>
             THEN /\ pc' = "done" /\ outcome' = "throw"
                  /\ location' = IF r.success THEN r.location ELSE location
                  /\ sanitizedText' = IF r.success THEN san ELSE sanitizedText
             ELSE /\ location' = r.location
                  /\ sanitizedText' = san
                  /\ outcome' = outcome
                  /\ pc' = IF TakesAcceptBranch(args) THEN "delete" ELSE "rejectUpdate"
  /\ attempt' = 0
  /\ UNCHANGED <<retry, doc, comment, args, originalText, restoreError, ncalls, nexternal>>

ElementText == doc[location.element]

\* if (location.startOffset < 0 || location.endOffset >= elementLength) throw
RangeInvalid(loc, elementLength) == loc.startOffset < 0 \/ loc.endOffset >= elementLength

\* textElement.deleteText(location.startOffset, location.endOffset)
DeleteText ==
  /\ pc = "delete"
  /\ \E throws \in BOOLEAN :
       IF RangeInvalid(location, Len(ElementText))
       THEN /\ ~throws
            /\ pc' = "catch" /\ doc' = doc /\ hist' = hist
       ELSE IF throws
       THEN /\ pc' = "catch" /\ doc' = doc
            /\ hist' = [hist EXCEPT !.faults = TRUE, !.docFaults = TRUE]
       ELSE /\ pc' = "insert"
            /\ doc' = [doc EXCEPT ![location.element] =
                         DeleteRange(@, location.startOffset, location.endOffset)]
            /\ hist' = [hist EXCEPT !.mutated = TRUE,
                                    !.changedBeforeMutation = (doc # hist.docAtStart)]
  /\ UNCHANGED <<retry, comment, args, originalText, location, sanitizedText, attempt,
                 outcome, restoreError, ncalls, nexternal>>

\* What an insertText of `text` can leave in the element: the text, or (a
\* write that went wrong) another text.
MismatchedWrite == <<"w">>

Written(text) == {text, MismatchedWrite}

\* textElement.insertText(location.startOffset, sanitizedText)
InsertText ==
  /\ pc = "insert"
  /\ \E throws \in BOOLEAN, w \in Written(sanitizedText) :
       IF throws \/ ~InsertOk(ElementText, location.startOffset)
       THEN /\ w = sanitizedText
            /\ pc' = "catch" /\ doc' = doc
            /\ hist' = [hist EXCEPT !.faults = TRUE, !.docFaults = TRUE]
       ELSE /\ pc' = "verify"
            /\ doc' = [doc EXCEPT ![location.element] = InsertAt(@, location.startOffset, w)]
            /\ hist' = [hist EXCEPT !.faults = @ \/ w # sanitizedText,
                                    !.docFaults = @ \/ w # sanitizedText]
  /\ UNCHANGED <<retry, comment, args, originalText, location, sanitizedText, attempt,
                 outcome, restoreError, ncalls, nexternal>>

\* currentText.substring(startOffset, startOffset + sanitizedText.length)
ReadBack(text, loc, san) == Substring(text, loc.startOffset, loc.startOffset + Len(san))

\* A read-back check that never fails.
NeverFails(verifyText, san) == FALSE

\* verifyText.length !== sanitizedText.length || verifyText !== sanitizedText
VerificationFails(verifyText, san) == Len(verifyText) # Len(san) \/ verifyText # san

VerifyReplacement ==
  /\ pc = "verify"
  /\ LET verifyText == ReadBack(ElementText, location, sanitizedText)
     IN IF VerificationFails(verifyText, sanitizedText)
        THEN /\ pc' = "restore"
             /\ hist' = [hist EXCEPT !.verifyFailed = TRUE, !.verifyText = verifyText]
        ELSE /\ pc' = "acceptUpdate"
             /\ hist' = [hist EXCEPT !.verified = TRUE, !.verifyText = verifyText]
  /\ attempt' = 0
  /\ UNCHANGED <<retry, doc, comment, args, originalText, location, sanitizedText,
                 outcome, restoreError, ncalls, nexternal>>

\* if (text at the offset === sanitizedText) { deleteText(...); insertText(offset, originalText) }
\* `how` is what the document does: "ok", "deleteThrows" or "insertThrows".
\* A restoration that leaves the text as it is.
NoRestore(text, loc, san, orig, how) == text

RestoreOriginal(text, loc, san, orig, how) ==
  IF ReadBack(text, loc, san) # san THEN text
  ELSE IF how = "deleteThrows"
          \/ ~DeleteRangeOk(text, loc.startOffset, loc.startOffset + Len(san) - 1)
  THEN text
  ELSE IF how = "insertThrows"
  THEN DeleteRange(text, loc.startOffset, loc.startOffset + Len(san) - 1)
  ELSE InsertAt(DeleteRange(text, loc.startOffset, loc.startOffset + Len(san) - 1),
                loc.startOffset, orig)

RestoreHows == {"ok", "deleteThrows", "insertThrows"}

\* The restoration attempt after a failed verification (src/Code.js:981); its
\* own errors are logged and dropped, then "Failed to verify" is thrown.
RestoreAfterVerifyFailure ==
  /\ pc = "restore"
  /\ \E how \in RestoreHows :
       /\ (ReadBack(ElementText, location, sanitizedText) # sanitizedText => how = "ok")
       /\ doc' = [doc EXCEPT ![location.element] =
                    RestoreOriginal(@, location, sanitizedText, originalText, how)]
       /\ hist' = [hist EXCEPT !.faults = @ \/ how # "ok", !.docFaults = @ \/ how # "ok",
                               !.rollbackFailed = @ \/ how # "ok",
                               !.rolledBack = @ \/ doc' # doc]
  /\ pc' = "catch"
  /\ UNCHANGED <<retry, comment, args, originalText, location, sanitizedText, attempt,
                 outcome, restoreError, ncalls, nexternal>>

\* The options argument of the two retryCommentUpdate calls: the accept call
\* passes none (options = {}), the reject call passes {resolved: false}.
AcceptOptionsResolved == Undefined

RejectOptionsResolved == "false"

\* A loop condition that never ends the loop.
NoAttemptLimit(n) == TRUE

\* attempt < RETRY_CONFIG.MAX_ATTEMPTS, the condition of the retry loop.
WithinAttempts(n) == n < MAX_ATTEMPTS

\* One pass of retryCommentUpdate for the accept message (src/Code.js:1033).
AcceptUpdate ==
  /\ pc = "acceptUpdate"
  /\ \E env \in StoreEnvs :
       LET r == UpdateAttempt(comment, AcceptedContent(originalText, sanitizedText),
                              AcceptOptionsResolved, env)
       IN /\ comment' = r.comment
          /\ attempt' = attempt + 1
          /\ pc' = IF r.passed THEN "resolve"
                   ELSE IF WithinAttempts(attempt + 1) THEN "acceptUpdate"
                   ELSE "updateFailed"
          /\ hist' = [hist EXCEPT !.faults = @ \/ ~FaithfulEnv(env, comment),
                                  !.storeAsked = @ \/ r.sent,
                                  !.updateExhausted = ~r.passed /\ ~WithinAttempts(attempt + 1)]
  /\ UNCHANGED <<retry, doc, args, originalText, location, sanitizedText,
                 outcome, restoreError, ncalls, nexternal>>

ResolveReply == [markers |-> {}, action |-> "resolve"]

ResolveEnvs == {"getThrows", "createThrows", "createThrowsApplied", "notResolved", "ok"}

\* The resolving reply after a successful update (src/Code.js:1042).  Every
\* error in this block is logged and dropped.
CreateResolvingReply ==
  /\ pc = "resolve"
  /\ \E env \in ResolveEnvs :
       /\ IF env = "getThrows"
          THEN comment' = comment /\ outcome' = "true"
          ELSE IF comment.resolved
          THEN env = "ok" /\ comment' = comment /\ outcome' = "undefined"
          ELSE /\ outcome' = "true"
               /\ comment' =
                    IF env = "createThrows" THEN comment
                    ELSE IF env = "notResolved"
                    THEN [comment EXCEPT !.replies = Append(@, ResolveReply)]
                    ELSE [comment EXCEPT !.replies = Append(@, ResolveReply),
                                         !.resolved = TRUE]
       /\ hist' = [hist EXCEPT !.faults = @ \/ env # "ok",
                               !.storeAsked = @ \/ (env # "getThrows" /\ ~comment.resolved),
                               !.acceptedOk = @ \/ outcome' = "true"]
  /\ pc' = "done"
  /\ UNCHANGED <<retry, doc, args, originalText, location, sanitizedText, attempt,
                 restoreError, ncalls, nexternal>>

\* if (!acceptUpdate.success) { restore the original text; throw } (src/Code.js:1090)
RestoreAfterUpdateFailure ==
  /\ pc = "updateFailed"
  /\ \E how \in RestoreHows :
       /\ (ReadBack(ElementText, location, sanitizedText) # sanitizedText => how = "ok")
       /\ doc' = [doc EXCEPT ![location.element] =
                    RestoreOriginal(@, location, sanitizedText, originalText, how)]
       /\ hist' = [hist EXCEPT !.faults = @ \/ how # "ok", !.docFaults = @ \/ how # "ok",
                               !.rollbackFailed = @ \/ how # "ok",
                               !.rolledBack = @ \/ doc' # doc]
  /\ pc' = "catch"
  /\ UNCHANGED <<retry, comment, args, originalText, location, sanitizedText, attempt,
                 outcome, restoreError, ncalls, nexternal>>

\* The catch block of the accept branch (src/Code.js:1112).  When the text at
\* the offset equals the sanitized text it calls
\* textElement.replaceText(start, end, originalText): Text.replaceText takes
\* (searchPattern, replacement), so the call either throws or replaces
\* nothing in a document without digits; the text read afterwards is then
\* compared with the original text.
CatchRestoreFails(text, loc, san, orig, replaceThrows) ==
  /\ ReadBack(text, loc, san) = san
  /\ \/ replaceThrows
     \/ Substring(text, loc.startOffset, loc.startOffset + Len(orig)) # orig

\* if (modifiedText.length === sanitizedText.length && modifiedText === sanitizedText)
CatchRestores == ReadBack(ElementText, location, sanitizedText) = sanitizedText

CatchAndRethrow ==
  /\ pc = "catch"
  /\ \E replaceThrows \in BOOLEAN :
       /\ (ReadBack(ElementText, location, sanitizedText) # sanitizedText => ~replaceThrows)
       /\ restoreError' = CatchRestoreFails(ElementText, location, sanitizedText,
                                            originalText, replaceThrows)
  /\ pc' = "done"
  /\ outcome' = "throw"
  /\ UNCHANGED <<retry, doc, comment, args, originalText, location, sanitizedText, attempt,
                 hist, ncalls, nexternal>>

\* One pass of retryCommentUpdate for the reject message (src/Code.js:1177).
RejectUpdate ==
  /\ pc = "rejectUpdate"
  /\ \E env \in StoreEnvs :
       LET r == UpdateAttempt(comment, RejectedContent, RejectOptionsResolved, env)
       IN /\ comment' = r.comment
          /\ attempt' = attempt + 1
          /\ pc' = IF r.passed \/ ~WithinAttempts(attempt + 1) THEN "done" ELSE "rejectUpdate"
          /\ outcome' = IF r.passed THEN "true"
                        ELSE IF ~WithinAttempts(attempt + 1) THEN "throw"
                        ELSE outcome
          /\ hist' = [hist EXCEPT !.faults = @ \/ ~FaithfulEnv(env, comment),
                                  !.storeAsked = @ \/ r.sent,
                                  !.updateExhausted = ~r.passed /\ ~WithinAttempts(attempt + 1)]
  /\ UNCHANGED <<retry, doc, args, originalText, location, sanitizedText,
                 restoreError, ncalls, nexternal>>

(***************************************************************************)
(* Other actors, while a call runs: another editor changes one character   *)
(* of the document, a user resolves the comment in the editor.             *)
(***************************************************************************)
ExternalChar == "z"

EditedText(text, op, p) ==
  IF op = "insert" THEN InsertAt(text, p, <<ExternalChar>>)
  ELSE IF op = "delete" THEN DeleteRange(text, p, p)
  ELSE [text EXCEPT ![p + 1] = ExternalChar]

Running == pc \notin {"idle", "done"}

\* The call observes the document only when it reads or writes it, and its
\* caller when it returns: another editor's step is taken right before one
\* of these.
BeforeDocumentAccess ==
  pc \in {"locate", "delete", "insert", "verify", "restore", "updateFailed", "catch", "resolve"}

ExternalEdit ==
  /\ BeforeDocumentAccess
  /\ nexternal < MaxExternal
  /\ nexternal' = nexternal + 1
  /\ \E e \in 1..Len(doc), op \in {"insert", "delete", "replace"} :
       \E p \in 0..Len(doc[e]) :
         /\ op # "insert" => p < Len(doc[e])
         /\ doc' = [doc EXCEPT ![e] = EditedText(@, op, p)]
  /\ hist' = [hist EXCEPT !.interfered = @ \/ Running,
                          !.interferedAfterVerify = @ \/ (Running /\ hist.verified)]
  /\ UNCHANGED <<retry, comment, pc, args, originalText, location, sanitizedText, attempt,
                 outcome, restoreError, ncalls>>

ExternalResolve ==
  /\ pc \in {"getComment", "acceptUpdate", "rejectUpdate", "resolve"}
  /\ nexternal < MaxExternal
  /\ nexternal' = nexternal + 1
  /\ ~comment.resolved
  /\ comment' = [comment EXCEPT !.resolved = TRUE, !.replies = Append(@, ResolveReply)]
  /\ hist' = [hist EXCEPT !.interfered = TRUE]
  /\ UNCHANGED <<retry, doc, pc, args, originalText, location, sanitizedText, attempt,
                 outcome, restoreError, ncalls>>

ApplyStep ==
  \/ \E in \in CallInputs : Start(in)
  \/ ValidateInputs
  \/ GetComment
  \/ VerifyLocation
  \/ DeleteText
  \/ InsertText
  \/ VerifyReplacement
  \/ RestoreAfterVerifyFailure
  \/ AcceptUpdate
  \/ CreateResolvingReply
  \/ RestoreAfterUpdateFailure
  \/ CatchAndRethrow
  \/ RejectUpdate

Next == ApplyStep \/ ExternalEdit \/ ExternalResolve

Spec == Init /\ [][Next]_vars

\* A step of the running call.  Each step is one collaborator call with the
\* code around it; a collaborator that returns or throws lets the step end,
\* so a running call always takes its next step.
RunningStep == Running /\ ApplyStep

SpecLive == Init /\ [][Next]_vars /\ WF_vars(RunningStep)

\* The order of the steps of applyAIEdit in the source text.
StepRank(p) ==
  IF p = "validate" THEN 1
  ELSE IF p = "getComment" THEN 2
  ELSE IF p = "locate" THEN 3
  ELSE IF p \in {"delete", "rejectUpdate"} THEN 4
  ELSE IF p = "insert" THEN 5
  ELSE IF p = "verify" THEN 6
  ELSE IF p \in {"restore", "acceptUpdate"} THEN 7
  ELSE IF p \in {"resolve", "updateFailed"} THEN 8
  ELSE IF p = "catch" THEN 9
  ELSE 10

(***************************************************************************)
(* checkDocumentChanges (src/Code.js:751) and the one call site the        *)
(* repository has for it (applyAIEdit of src/unnamed/part_001, line 452):  *)
(* snapshot, resolve the location, check.  `body` is the live document.    *)
(***************************************************************************)
checkDocumentChanges(initialVersion, currentText, loc, body) ==
  IF BodyText(body) = initialVersion THEN "unchanged"
  ELSE LET originalTextIntact ==
             Substring(currentText, loc.anchorStart, loc.anchorEnd + 1)
               = Substring(body[loc.element], loc.startOffset, loc.endOffset + 1)
       IN IF originalTextIntact THEN "changedElsewhere" ELSE "changedInTarget"

DetectDocs ==
  { << <<"a", "b">> >>,
    << <<"a", "b", "y">> >>,
    << <<"x", "a", "b">> >>,
    << <<"x", "a", "b", "y">> >>,
    << <<"x", "x", "a", "b", "y">> >> }

\* initialDocumentVersion = doc.getBody().getText(); location = the resolved span.
DetectInit ==
  /\ doc \in DetectDocs
  /\ comment = [exists |-> TRUE, content |-> AIContent, resolved |-> FALSE,
                hasQuoted |-> TRUE, quoted |-> Quoted, hasAnchor |-> TRUE,
                replies |-> <<>>]
  /\ pc = "snapshot"
  /\ args = [commentId |-> "c1", suggestedText |-> <<"c">>, accepted |-> TRUE]
  /\ originalText = Quoted
  /\ location = verifyTextLocation(TRUE, comment, doc, Quoted).location
  /\ sanitizedText = <<>>
  /\ attempt = 0
  /\ outcome = "none"
  /\ restoreError = FALSE
  /\ hist = NewHist(doc, FALSE, "none")
  /\ ncalls = 1
  /\ nexternal = 0
  /\ retry = NoRetry

\* Another editor changes the document between the snapshot and the check.
DetectMutate ==
  /\ pc = "snapshot"
  /\ nexternal < MaxExternal
  /\ nexternal' = nexternal + 1
  /\ \E e \in 1..Len(doc), op \in {"insert", "delete", "replace"} :
       \E p \in 0..Len(doc[e]) :
         /\ op # "insert" => p < Len(doc[e])
         /\ doc' = [doc EXCEPT ![e] = EditedText(@, op, p)]
  /\ UNCHANGED <<retry, comment, pc, args, originalText, location, sanitizedText, attempt,
                 outcome, restoreError, hist, ncalls>>

\* const changes = checkDocumentChanges(initialDocumentVersion, originalText, location)
DetectCheck ==
  /\ pc = "snapshot"
  /\ pc' = "checked"
  /\ outcome' = checkDocumentChanges(BodyText(hist.docAtStart), originalText, location, doc)
  /\ UNCHANGED <<retry, doc, comment, args, originalText, location, sanitizedText, attempt,
                 restoreError, hist, ncalls, nexternal>>

DetectNext == DetectMutate \/ DetectCheck

SpecDetect == DetectInit /\ [][DetectNext]_vars

(***************************************************************************)
(* verifyTextLocation on its own: a document and a comment are given, the  *)
(* resolver is called once.                                                *)
(***************************************************************************)
\* Text elements holding NearQuoted with contexts of several similarities
\* (1, 0.8, 2/3) and one element without it.
NearElements ==
  { <<"a", "b", "c", "d">>,
    <<"a", "b", "c", "d", SP>>,
    <<"a", "b", "c", "d", "x">>,
    <<"x", "a", "b", "c", "d">>,
    <<"a", "b", "c", "d", "x", "y">>,
    <<"a", "b", "c", "d", "a", "b", "c", "d">>,
    <<"x", "y">> }

HelloText == <<"H", "e", "l", "l", "o", SP, "w", "o", "r", "l", "d", ".">>

\* "Hello world. Hello world." in one text element.
HelloDoc == << HelloText \o <<SP>> \o HelloText >>

ResolveCases ==
  {[doc |-> <<e>>, quoted |-> NearQuoted] : e \in NearElements}
  \cup {[doc |-> <<e1, e2>>, quoted |-> NearQuoted] : e1 \in NearElements, e2 \in NearElements}
  \cup {[doc |-> HelloDoc, quoted |-> HelloText]}
  \cup {[doc |-> << <<"a", "b", "c", "d", "x">>, NearQuoted, NearQuoted >>,
          quoted |-> NearQuoted]}

ResolveInit ==
  /\ \E c \in ResolveCases :
       /\ doc = c.doc
       /\ comment = [exists |-> TRUE, content |-> AIContent, resolved |-> FALSE,
                     hasQuoted |-> TRUE, quoted |-> c.quoted, hasAnchor |-> TRUE,
                     replies |-> <<>>]
       /\ originalText = c.quoted
  /\ pc = "resolving"
  /\ args = [commentId |-> "c1", suggestedText |-> <<"c">>, accepted |-> TRUE]
  /\ location = NoLocation
  /\ sanitizedText = <<>>
  /\ attempt = 0
  /\ outcome = "none"
  /\ restoreError = FALSE
  /\ hist = NewHist(doc, FALSE, "none")
  /\ ncalls = 1
  /\ nexternal = 0
  /\ retry = NoRetry

\* const verifyResult = verifyTextLocation(fileId, commentId, originalText)
ResolveLocation ==
  /\ pc = "resolving"
  /\ pc' = "resolved"
  /\ \E ok \in BOOLEAN :
       LET r == verifyTextLocation(ok, comment, doc, originalText)
       IN /\ outcome' = IF r.success THEN "success" ELSE r.error
          /\ location' = r.location
          /\ hist' = [hist EXCEPT !.faults = ~ok, !.locateError = r.error]
  /\ UNCHANGED <<retry, doc, comment, args, originalText, sanitizedText, attempt,
                 restoreError, ncalls, nexternal>>

ResolveNext == ResolveLocation

SpecResolve == ResolveInit /\ [][ResolveNext]_vars

\* The anchor of the comment: the one the store made for the quoted span, one
\* made for a span that has moved since, or none.
Anchors == {"kix.1:0-3", "kix.1:7-10", ""}

\* !!comment.anchor
HasAnchor(anchor) == anchor # ""

AnchorInit ==
  /\ \E c \in ResolveCases, a \in Anchors :
       /\ doc = c.doc
       /\ comment = [exists |-> TRUE, content |-> AIContent, resolved |-> FALSE,
                     hasQuoted |-> TRUE, quoted |-> c.quoted, anchor |-> a,
                     hasAnchor |-> HasAnchor(a), replies |-> <<>>]
       /\ originalText = c.quoted
  /\ pc = "resolving"
  /\ args = [commentId |-> "c1", suggestedText |-> <<"c">>, accepted |-> TRUE]
  /\ location = NoLocation
  /\ sanitizedText = <<>>
  /\ attempt = 0
  /\ outcome = "none"
  /\ restoreError = FALSE
  /\ hist = NewHist(doc, FALSE, "none")
  /\ ncalls = 1
  /\ nexternal = 0
  /\ retry = NoRetry

SpecAnchor == AnchorInit /\ [][ResolveNext]_vars

\* The occurrences of the quoted text in the document and the score of the
\* context of each against the quoted text the comment stores.
Found == FindAll(doc, NormalizeOriginal(originalText), 1)

ScoreOf(i) == calculateSimilarity(MatchContext(doc, Found[i]), comment.quoted)

Threshold == [num |-> 4, den |-> 5]

ScoreGe(s, t) == ~ScoreGt(t, s)

\* The earliest occurrence among those with the highest score.
IsFirstBest(i) ==
  /\ \A j \in 1..Len(Found) : ScoreGe(ScoreOf(i), ScoreOf(j))
  /\ \A j \in 1..(i - 1) : ScoreGt(ScoreOf(i), ScoreOf(j))

(***************************************************************************)
(* calculateBackoffDelay on its own: a retry index and a Math.random()     *)
(* result are given, the delay is computed.                                *)
(***************************************************************************)
MaxBackoffAttempt == 6

TopRandoms == 16

\* Math.random() results: 0, 1/2 and the doubles 1 - k * 2^-53.
Randoms ==
  {[half |-> 0, below |-> 0], [half |-> 1, below |-> 0]}
  \cup {[half |-> 2, below |-> k] : k \in 1..TopRandoms}

BackoffInit ==
  /\ attempt \in 0..MaxBackoffAttempt
  /\ pc = "backoff"
  /\ retry = [active |-> FALSE, rnd |-> [half |-> 0, below |-> 0],
              delay |-> [ms |-> 0, below |-> 0]]
  /\ doc = << Quoted >>
  /\ comment = [exists |-> TRUE, content |-> AIContent, resolved |-> FALSE,
                hasQuoted |-> TRUE, quoted |-> Quoted, hasAnchor |-> TRUE,
                replies |-> <<>>]
  /\ args = NoArgs
  /\ originalText = <<>>
  /\ location = NoLocation
  /\ sanitizedText = <<>>
  /\ outcome = "none"
  /\ restoreError = FALSE
  /\ hist = NewHist(doc, FALSE, "none")
  /\ ncalls = 0
  /\ nexternal = 0

\* const delay = calculateBackoffDelay(attempt)
ComputeBackoff ==
  /\ pc = "backoff"
  /\ pc' = "backedOff"
  /\ \E rnd \in Randoms :
       retry' = [retry EXCEPT !.rnd = rnd, !.delay = calculateBackoffDelay(attempt, rnd)]
  /\ UNCHANGED <<doc, comment, args, originalText, location, sanitizedText, attempt,
                 outcome, restoreError, hist, ncalls, nexternal>>

BackoffNext == ComputeBackoff

SpecBackoff == BackoffInit /\ [][BackoffNext]_vars

(***************************************************************************)
(* retryCommentUpdate (src/Code.js:140) on its own: one call, attempt by   *)
(* attempt.  retry.attempts records what each attempt did.                 *)
(***************************************************************************)
RetryComments ==
  {[exists |-> ex, content |-> ContentOf(kind, <<>>, <<>>), resolved |-> res,
    hasQuoted |-> TRUE, quoted |-> Quoted, hasAnchor |-> TRUE, replies |-> <<>>] :
     ex \in BOOLEAN, kind \in {"AI", "EMPTY"}, res \in BOOLEAN}

\* The content and options.resolved of the calls: the accept call, the reject
\* call, a call asking for resolved = true, a call with an empty content.
RetryInputs ==
  {[fileId |-> "f1", commentId |-> "c1", content |-> c.content, optResolved |-> c.optResolved] :
     c \in {[content |-> AcceptedContent(Quoted, <<"c">>), optResolved |-> Undefined],
            [content |-> RejectedContent, optResolved |-> "false"],
            [content |-> RejectedContent, optResolved |-> "true"],
            [content |-> EmptyContent, optResolved |-> Undefined]}}
  \cup {[fileId |-> "", commentId |-> "c1", content |-> RejectedContent, optResolved |-> "false"],
        [fileId |-> "f1", commentId |-> "", content |-> RejectedContent, optResolved |-> "false"]}

RetryRandoms == {[half |-> 0, below |-> 0], [half |-> 2, below |-> 1]}

RetryInit ==
  /\ comment \in {c \in RetryComments : c.exists \/ (c.content.kind = "AI" /\ ~c.resolved)}
  /\ \E in \in RetryInputs :
       retry = [active |-> TRUE, fileId |-> in.fileId, commentId |-> in.commentId,
                content |-> in.content, optResolved |-> in.optResolved,
                attempts |-> <<>>, sleeps |-> <<>>, lastError |-> "",
                result |-> "none", error |-> "", attemptsReported |-> 0]
  /\ pc = "retryEntry"
  /\ attempt = 0
  /\ doc = << Quoted >>
  /\ args = NoArgs
  /\ originalText = <<>>
  /\ location = NoLocation
  /\ sanitizedText = <<>>
  /\ outcome = "none"
  /\ restoreError = FALSE
  /\ hist = NewHist(doc, FALSE, "none")
  /\ ncalls = 0
  /\ nexternal = 0

\* A parameter check that looks at the content only.
EmptyContentOnly(r) == r.content.kind = "EMPTY"

\* !fileId || !commentId || !content
InvalidParameters(r) == r.fileId = "" \/ r.commentId = "" \/ r.content.kind = "EMPTY"

\* if (!fileId || !commentId || !content) return { success: false, ... }
RetryEnter ==
  /\ pc = "retryEntry"
  /\ IF InvalidParameters(retry)
     THEN /\ pc' = "retryReturned"
          /\ retry' = [retry EXCEPT !.result = "failure", !.error = "Invalid parameters"]
     ELSE /\ pc' = "retryAttempt"
          /\ retry' = retry
  /\ UNCHANGED <<doc, comment, args, originalText, location, sanitizedText, attempt,
                 outcome, restoreError, hist, ncalls, nexternal>>

\* A loop body that never returns from inside the loop.
NeverReturnsEarly(r) == FALSE

\* return { success: true } at the end of the try block.
ReturnsOnPass(r) == r.passed

\* The try block of one loop iteration.
RetryAttempt ==
  /\ pc = "retryAttempt"
  /\ \E env \in StoreEnvs :
       LET r == UpdateAttempt(comment, retry.content, retry.optResolved, env)
           rec == [env |-> env, fetched |-> r.fetched, sent |-> r.sent,
                   passed |-> r.passed, error |-> r.error]
       IN /\ comment' = r.comment
          /\ IF ReturnsOnPass(r)
             THEN /\ pc' = "retryReturned"
                  /\ retry' = [retry EXCEPT !.attempts = Append(@, rec),
                                            !.result = "success"]
             ELSE /\ pc' = "retryCaught"
                  /\ retry' = [retry EXCEPT !.attempts = Append(@, rec)]
  /\ UNCHANGED <<doc, args, originalText, location, sanitizedText, attempt,
                 outcome, restoreError, hist, ncalls, nexternal>>

\* An error record that keeps the first error.
FirstError(prev, error) == IF prev = "" THEN error ELSE prev

\* lastError = error
LastError(prev, error) == error

\* A catch block that sleeps after every failed attempt.
AlwaysSleeps(n) == TRUE

\* if (attempt < RETRY_CONFIG.MAX_ATTEMPTS - 1) { sleep(calculateBackoffDelay(attempt)) }
SleepsBeforeRetry(n) == n < MAX_ATTEMPTS - 1

\* The catch block: remember the error, sleep before the next attempt, and
\* after the last attempt leave the loop and return the failure.
RetryCatch ==
  /\ pc = "retryCaught"
  /\ attempt' = attempt + 1
  /\ LET error == LastError(retry.lastError, retry.attempts[Len(retry.attempts)].error)
         slept == IF SleepsBeforeRetry(attempt)
                  THEN {Append(retry.sleeps, calculateBackoffDelay(attempt, rnd)) :
                          rnd \in RetryRandoms}
                  ELSE {retry.sleeps}
     IN IF attempt + 1 < MAX_ATTEMPTS
        THEN /\ pc' = "retryAttempt"
             /\ \E sl \in slept :
                  retry' = [retry EXCEPT !.lastError = error, !.sleeps = sl]
        ELSE /\ pc' = "retryReturned"
             /\ \E sl \in slept :
                  retry' = [retry EXCEPT !.lastError = error, !.sleeps = sl,
                                        !.result = "failure",
                                        !.error = error,
                                        !.attemptsReported = MAX_ATTEMPTS]
  /\ UNCHANGED <<doc, comment, args, originalText, location, sanitizedText,
                 outcome, restoreError, hist, ncalls, nexternal>>

RetryNext == RetryEnter \/ RetryAttempt \/ RetryCatch

SpecRetry == RetryInit /\ [][RetryNext]_vars

\* The two entry points together: a behaviour is one retryCommentUpdate call
\* or a sequence of applyAIEdit calls.
EntryInit == Init \/ RetryInit

EntryNext == Next \/ RetryNext

SpecEntry == EntryInit /\ [][EntryNext]_vars

(***************************************************************************)
(* getAIComments (src/Code.js:455) on its own: the store holds a comment   *)
(* with a reply history, Drive.Comments.list answers it or throws, the     *)
(* filter decides.  `outcome` is the state getCommentState gave the filter *)
(* and retry.returned the comments the call returned.                      *)
(***************************************************************************)
MaxReplies == 2

\* The markers a reply content can include.
MarkerSets == { {}, {"ACCEPTED"}, {"PROCESSING"}, {"REJECTED"}, {"ACCEPTED", "REJECTED"} }

ReplyKinds == {[markers |-> m, action |-> "none"] : m \in MarkerSets} \cup {ResolveReply}

RECURSIVE SeqsUpTo(_, _)
SeqsUpTo(S, n) ==
  IF n = 0 THEN { <<>> }
  ELSE LET shorter == SeqsUpTo(S, n - 1)
       IN shorter \cup {Append(q, x) : q \in {r \in shorter : Len(r) = n - 1}, x \in S}

ListComments ==
  {[exists |-> TRUE, content |-> ContentOf(kind, <<>>, <<>>), resolved |-> res,
    hasQuoted |-> hq, quoted |-> q, hasAnchor |-> ha, replies |-> rs] :
     kind \in {"AI", "OTHER", "REJECTED"}, res \in BOOLEAN, hq \in BOOLEAN,
     q \in {<<>>, Quoted}, ha \in BOOLEAN, rs \in SeqsUpTo(ReplyKinds, MaxReplies)}

ListInit ==
  /\ comment \in {c \in ListComments : ~c.hasQuoted => c.quoted = <<>>}
  /\ pc = "listing"
  /\ retry = [active |-> FALSE, returned |-> {}]
  /\ doc = << Quoted >>
  /\ args = NoArgs
  /\ originalText = <<>>
  /\ location = NoLocation
  /\ sanitizedText = <<>>
  /\ attempt = 0
  /\ outcome = "none"
  /\ restoreError = FALSE
  /\ hist = NewHist(doc, FALSE, "none")
  /\ ncalls = 0
  /\ nexternal = 0

\* const aiComments = comments.filter(...); a throw of Drive.Comments.list is
\* rethrown as "Failed to retrieve comments".
ListEligible ==
  /\ pc = "listing"
  /\ pc' = "listed"
  /\ \E ok \in BOOLEAN :
       IF ok
       THEN /\ outcome' = getCommentState(comment)
            /\ retry' = [retry EXCEPT !.returned = getAIComments(comment)]
       ELSE /\ outcome' = "throw"
            /\ retry' = retry
  /\ UNCHANGED <<doc, comment, args, originalText, location, sanitizedText, attempt,
                 restoreError, hist, ncalls, nexternal>>

ListNext == ListEligible

SpecList == ListInit /\ [][ListNext]_vars

\* The most recent reply that includes a state marker, 0 when there is none.
RECURSIVE LastMarked(_, _)
LastMarked(replies, i) ==
  IF i < 1 THEN 0
  ELSE IF replies[i].markers # {} THEN i ELSE LastMarked(replies, i - 1)

(***************************************************************************)
(* calculateSimilarity (src/Code.js:680) on its own: two strings are       *)
(* given, the score is computed for both orders of the arguments.          *)
(***************************************************************************)
MaxStrLen == 2

SimilarityChars == {"a", "b", "A", SP}

SimilarityInputs == SeqsUpTo(SimilarityChars, MaxStrLen)

NoScore == [num |-> 0, den |-> 0]

SimilarityInit ==
  /\ \E s1 \in SimilarityInputs, s2 \in SimilarityInputs :
       retry = [active |-> FALSE, str1 |-> s1, str2 |-> s2,
                score |-> NoScore, swapped |-> NoScore]
  /\ pc = "comparing"
  /\ doc = << Quoted >>
  /\ comment = [exists |-> TRUE, content |-> AIContent, resolved |-> FALSE,
                hasQuoted |-> TRUE, quoted |-> Quoted, hasAnchor |-> TRUE,
                replies |-> <<>>]
  /\ args = NoArgs
  /\ originalText = <<>>
  /\ location = NoLocation
  /\ sanitizedText = <<>>
  /\ attempt = 0
  /\ outcome = "none"
  /\ restoreError = FALSE
  /\ hist = NewHist(doc, FALSE, "none")
  /\ ncalls = 0
  /\ nexternal = 0

\* calculateSimilarity(str1, str2) and calculateSimilarity(str2, str1)
CompareStrings ==
  /\ pc = "comparing"
  /\ pc' = "compared"
  /\ retry' = [retry EXCEPT !.score = calculateSimilarity(retry.str1, retry.str2),
                            !.swapped = calculateSimilarity(retry.str2, retry.str1)]
  /\ UNCHANGED <<doc, comment, args, originalText, location, sanitizedText, attempt,
                 outcome, restoreError, hist, ncalls, nexternal>>

SimilarityNext == CompareStrings

SpecSimilarity == SimilarityInit /\ [][SimilarityNext]_vars

(***************************************************************************)
(* sanitizeText (src/Code.js:414) on its own: a text is given, it is       *)
(* sanitized, and the result is sanitized again.                           *)
(***************************************************************************)
MaxTextLen == 3

SanitizeChars == {"a", SP, CTRL, LF, LSEP}

SanitizeInputs == SeqsUpTo(SanitizeChars, MaxTextLen)

SanitizeInit ==
  /\ \E t \in SanitizeInputs :
       retry = [active |-> FALSE, text |-> t, once |-> <<>>, twice |-> <<>>]
  /\ pc = "sanitizing"
  /\ doc = << Quoted >>
  /\ comment = [exists |-> TRUE, content |-> AIContent, resolved |-> FALSE,
                hasQuoted |-> TRUE, quoted |-> Quoted, hasAnchor |-> TRUE,
                replies |-> <<>>]
  /\ args = NoArgs
  /\ originalText = <<>>
  /\ location = NoLocation
  /\ sanitizedText = <<>>
  /\ attempt = 0
  /\ outcome = "none"
  /\ restoreError = FALSE
  /\ hist = NewHist(doc, FALSE, "none")
  /\ ncalls = 0
  /\ nexternal = 0

\* sanitizeText(text)
SanitizeOnce ==
  /\ pc = "sanitizing"
  /\ pc' = "sanitizedOnce"
  /\ retry' = [retry EXCEPT !.once = sanitizeText(retry.text)]
  /\ UNCHANGED <<doc, comment, args, originalText, location, sanitizedText, attempt,
                 outcome, restoreError, hist, ncalls, nexternal>>

\* sanitizeText(sanitizeText(text))
SanitizeAgain ==
  /\ pc = "sanitizedOnce"
  /\ pc' = "sanitizedTwice"
  /\ retry' = [retry EXCEPT !.twice = sanitizeText(retry.once)]
  /\ UNCHANGED <<doc, comment, args, originalText, location, sanitizedText, attempt,
                 outcome, restoreError, hist, ncalls, nexternal>>

SanitizeNext == SanitizeOnce \/ SanitizeAgain

SpecSanitize == SanitizeInit /\ [][SanitizeNext]_vars

\* replace(/\s+/g, ' ').trim().toLowerCase()
NormalizeForScore(str) == ToLowerCase(Trim(CollapseSpaces(str)))

\* The edits of one character that turn element text `before` into `after`:
\* pairs <<op, p>>, p the position the edit was made at.
EditsBetween(before, after) ==
  { x \in {"insert", "delete", "replace"} \X (0..Len(before)) :
      /\ x[1] # "insert" => x[2] < Len(before)
      /\ after = EditedText(before, x[1], x[2]) }

\* An edit touches the span when it deletes or replaces one of its characters
\* or inserts between two of them.
TouchesSpan(x, loc) ==
  IF x[1] = "insert" THEN loc.startOffset < x[2] /\ x[2] <= loc.endOffset
  ELSE loc.startOffset <= x[2] /\ x[2] <= loc.endOffset

(***************************************************************************)
(* Properties.                                                             *)
(***************************************************************************)
Returned == pc = "done" /\ outcome \in {"true", "undefined"}

\* C1: once an accept call has returned success, no step of a later
\* applyAIEdit call for the comment changes the document text.
C1_ReplacedAtMostOnce == [][(hist.acceptedOk /\ ApplyStep) => doc' = doc]_vars

\* C2: no step of a reject call (accepted = false) changes the document text
\* or makes the comment resolved, whatever the store does, in a first call
\* and in a reject call that follows a reject call.
C2_RejectLeavesDocumentAndResolved ==
  [][(ApplyStep /\ ~args'.accepted) =>
       (doc' = doc /\ (comment'.resolved => comment.resolved))]_vars

\* C2 witness: the second of two reject calls in a row has returned success.
C2_TwoRejectsDone ==
  /\ pc = "done" /\ ~args.accepted /\ outcome = "true"
  /\ hist.prevCall = "reject" /\ ncalls = 2
  /\ comment.content = RejectedContent

\* C3: when the post-mutation verification failed and nobody else touched
\* the document, the document text at the end of the call equals the text
\* before the call.
C3_VerifyFailureRestoresDocument ==
  (pc = "done" /\ hist.verifyFailed /\ ~hist.interfered) => doc = hist.docAtStart

C5_NoMutationAfterExternalChange == hist.mutated => ~hist.changedBeforeMutation

\* C6: after an accept call that returned without throwing, the text the call
\* read back at the resolved start offset is the sanitized replacement, and
\* the document holds it there unless another editor changed the document
\* after that read.
C6_ReadBackIsSanitized ==
  (Returned /\ args.accepted)
    => /\ hist.verifyText = sanitizedText
       /\ sanitizedText = sanitizeText(args.suggestedText)
       /\ ~hist.interferedAfterVerify
            => ReadBack(ElementText, location, sanitizedText) = sanitizedText

\* C6 witness: a successful accept whose replacement was changed by sanitizing.
C6_AcceptReturned ==
  /\ Returned /\ args.accepted /\ outcome = "true"
  /\ sanitizedText # args.suggestedText
  /\ ~hist.interferedAfterVerify

\* C7: with an unchanged document, one occurrence of the quoted text, a
\* non-empty sanitized replacement and a store that answers every call and
\* echoes what it holds, an accept call for an eligible comment returns
\* success with the replacement in the document, the ACCEPTED content in the
\* comment and the comment resolved.
C7_HappyPathAccepts ==
  (/\ pc = "done" /\ args.accepted /\ args.commentId # ""
   /\ sanitizeText(args.suggestedText) # <<>>
   /\ hist.eligibleAtStart /\ hist.uniqueAtStart
   /\ ~hist.faults /\ ~hist.interfered)
    => /\ outcome = "true"
       /\ ReadBack(ElementText, location, sanitizedText) = sanitizedText
       /\ comment.content = AcceptedContent(originalText, sanitizedText)
       /\ comment.resolved

\* C8: after a reject call returned success, getCommentState gives the
\* REJECTED marker and getAIComments returns the comment while it is
\* unresolved.
C8_RejectedIsReprocessable ==
  (pc = "done" /\ ~args.accepted /\ outcome = "true")
    => /\ getCommentState(comment) = "REJECTED"
       /\ ~comment.resolved => getAIComments(comment) = {comment}

\* C9: when the document was changed between the snapshot and the check by
\* an edit strictly outside the resolved span, checkDocumentChanges reports
\* changed = true with targetAreaChanged = false, and never "unchanged".
C9_OutsideIsChangedElsewhere ==
  (/\ pc = "checked" /\ doc # hist.docAtStart
   /\ LET edits == EditsBetween(hist.docAtStart[location.element], doc[location.element])
      IN edits # {} /\ \A x \in edits : ~TouchesSpan(x, location))
    => outcome = "changedElsewhere"

\* C10: when the document was changed between the snapshot and the check by
\* an edit that touches a character of the resolved span, checkDocumentChanges
\* reports changed = true with targetAreaChanged = true.
C10_InsideIsChangedInTarget ==
  (/\ pc = "checked" /\ doc # hist.docAtStart
   /\ LET edits == EditsBetween(hist.docAtStart[location.element], doc[location.element])
      IN edits # {} /\ \A x \in edits : TouchesSpan(x, location))
    => outcome = "changedInTarget"

\* C11 (as claimed): with two occurrences of the quoted text, the resolver
\* fails as ambiguous when both context scores are below 0.8, and returns a
\* highest-scoring occurrence when both score 0.8 or more, 0.8 included.
C11_ThresholdInclusive ==
  (pc = "resolved" /\ ~hist.faults /\ Len(Found) = 2)
    => /\ (\A i \in 1..2 : ScoreGt(Threshold, ScoreOf(i))) => outcome = "Ambiguous"
       /\ (\A i \in 1..2 : ScoreGe(ScoreOf(i), Threshold))
            => /\ outcome = "success"
               /\ \E i \in 1..2 : /\ location = LocationOf(Found[i])
                                  /\ \A j \in 1..2 : ScoreGe(ScoreOf(i), ScoreOf(j))

\* C11 (amended): with two occurrences of the quoted text, the resolver fails
\* as ambiguous when no context score exceeds 0.8 (a score of exactly 0.8 is
\* ambiguous), and when a score exceeds 0.8 it returns the occurrence with
\* the highest score, the earlier one on a tie: the result is a function of
\* the document and the quoted text.
C11_ThresholdExclusive ==
  (pc = "resolved" /\ ~hist.faults /\ Len(Found) = 2)
    => IF \A i \in 1..2 : ScoreGe(Threshold, ScoreOf(i))
       THEN outcome = "Ambiguous" /\ location = NoLocation
       ELSE /\ outcome = "success"
            /\ \E i \in 1..2 : IsFirstBest(i) /\ location = LocationOf(Found[i])

\* C11 witness: the first occurrence scores exactly 0.8, the second scores
\* higher and is the one returned.
C11_SecondOccurrenceChosen ==
  /\ pc = "resolved" /\ ~hist.faults /\ Len(Found) = 2
  /\ ScoreOf(1) = Threshold
  /\ ScoreGt(ScoreOf(2), Threshold)
  /\ outcome = "success" /\ location = LocationOf(Found[2])

\* C12: when the quoted text has more than one occurrence, the call goes on
\* past the resolver only with a location whose context score is above 0.8;
\* otherwise it ends with an error, the document and the comment untouched.
C12_NoLowScoreLocation ==
  [][(ApplyStep /\ pc = "locate" /\ Len(Found) > 1)
       => IF pc' # "done"
          THEN /\ \E i \in 1..Len(Found) : location' = LocationOf(Found[i])
               /\ ScoreGt(calculateSimilarity(MatchContext(doc, location'), comment.quoted),
                          Threshold)
          ELSE outcome' = "throw" /\ doc' = doc /\ comment' = comment]_vars

\* C12 witness: an accept call for a quoted text with two occurrences scoring
\* exactly 0.8 ended with the ambiguity error and the document as it was.
C12_AmbiguousAcceptAborted ==
  /\ pc = "done" /\ args.accepted /\ outcome = "throw"
  /\ hist.locateError = "Ambiguous"
  /\ doc = NearDoc /\ ~hist.mutated /\ ~hist.storeAsked

\* C13: for the document "Hello world. Hello world." and the quoted text
\* "Hello world." the resolver returns a location.
C13_HelloWorldResolved ==
  (pc = "resolved" /\ ~hist.faults /\ doc = HelloDoc /\ originalText = HelloText)
    => outcome = "success"

\* C14: when the quoted text has no occurrence in the document, the resolver
\* step ends the call with an error, and the call has changed neither the
\* document nor the comment and has asked the store for no write.
C14_NotFoundAborts ==
  /\ [][(ApplyStep /\ pc = "locate" /\ Len(Found) = 0)
          => (pc' = "done" /\ outcome' = "throw" /\ doc' = doc /\ comment' = comment)]_vars
  /\ [](hist.locateError = "NotFound"
          => (pc = "done" /\ outcome = "throw" /\ ~hist.mutated /\ ~hist.storeAsked))

\* C14 witness: an accept call ended "not found".
C14_NotFoundDone ==
  /\ pc = "done" /\ args.accepted /\ outcome = "throw"
  /\ hist.locateError = "NotFound"
  /\ Len(Found) = 0

\* The attempts the retryCommentUpdate call has made so far.
Att == retry.attempts

\* C15: retryCommentUpdate makes at most 3 attempts; an attempt that passes
\* (fetch, update and verification) is the last one and the call returns
\* success right after it, also when it is the third after two failures.
C15_ReturnsOnFirstPass ==
  /\ Len(Att) <= 3
  /\ \A k \in 1..Len(Att) :
       Att[k].passed => /\ Att[k].fetched /\ Att[k].sent
                        /\ k = Len(Att)
                        /\ pc = "retryReturned" /\ retry.result = "success"
  /\ (pc = "retryReturned" /\ retry.result = "success") => Att[Len(Att)].passed

\* C15 witness: two failed attempts, then the third passes and the call
\* returns success.
C15_ThirdAttemptPasses ==
  /\ pc = "retryReturned" /\ retry.result = "success"
  /\ Len(Att) = 3 /\ ~Att[1].passed /\ ~Att[2].passed /\ Att[3].passed

\* C16: when all 3 attempts failed, the call returns a failure result that
\* carries the error of the third attempt and attempts = 3; a failure for
\* valid parameters is returned after exactly 3 attempts.
C16_ExhaustionReturnsFailure ==
  /\ (pc = "retryReturned" /\ Len(Att) = 3 /\ \A k \in 1..3 : ~Att[k].passed)
       => /\ retry.result = "failure"
          /\ retry.error = Att[3].error
          /\ retry.attemptsReported = 3
  /\ (pc = "retryReturned" /\ retry.result = "failure" /\ ~InvalidParameters(retry))
       => Len(Att) = 3

\* C16 witness: three failed attempts with three different errors.
C16_ThreeDifferentErrors ==
  /\ pc = "retryReturned" /\ retry.result = "failure" /\ Len(Att) = 3
  /\ Att[1].error # Att[3].error /\ Att[2].error # Att[3].error
  /\ Att[1].error # Att[2].error

\* C17: an attempt whose update call returned a record passes exactly when
\* the echoed content equals the requested content and the echoed resolved
\* value equals the requested one.
C17_EchoMismatchFails ==
  \A k \in 1..Len(Att) :
    (Att[k].sent /\ Att[k].env.kind = "echo")
      => (Att[k].passed <=> (/\ Att[k].env.echoSame
                             /\ Att[k].env.echoResolved = retry.optResolved))

\* C17 witness: an attempt whose echo had the requested content and another
\* resolved value failed, and the next attempt passed.
C17_ResolvedMismatchRetried ==
  /\ pc = "retryReturned" /\ retry.result = "success" /\ Len(Att) = 2
  /\ Att[1].env.kind = "echo" /\ Att[1].sent /\ Att[1].env.echoSame
  /\ Att[1].env.echoResolved # retry.optResolved
  /\ ~Att[1].passed /\ Att[2].passed

\* min(1000 * 2^i, 5000) for the retry index i.
BaseDelay(i) == IF i = 0 THEN 1000 ELSE IF i = 1 THEN 2000 ELSE IF i = 2 THEN 4000 ELSE 5000

\* C18 (as claimed): calculateBackoffDelay(i) is at least min(1000 * 2^i, 5000)
\* and strictly less than that plus 1000, so at least 1000 and below 6000.
C18_DelayBelowUpperBound ==
  pc = "backedOff"
    => /\ retry.delay.ms >= BaseDelay(attempt)
       /\ retry.delay.ms = BaseDelay(attempt) => retry.delay.below = 0
       /\ retry.delay.ms < BaseDelay(attempt) + 1000
            \/ (retry.delay.ms = BaseDelay(attempt) + 1000 /\ retry.delay.below > 0)
       /\ retry.delay.ms >= 1000
       /\ retry.delay.ms < 6000 \/ (retry.delay.ms = 6000 /\ retry.delay.below > 0)

\* C18 (amended): calculateBackoffDelay(i) is at least min(1000 * 2^i, 5000)
\* and at most that plus 1000, the upper end being reached only when the sum
\* is rounded up for a random value next to 1; it is never below 1000 and
\* never above 6000.
C18_DelayWithinClosedBounds ==
  pc = "backedOff"
    => /\ retry.delay.ms >= BaseDelay(attempt)
       /\ retry.delay.ms = BaseDelay(attempt) => retry.delay.below = 0
       /\ retry.delay.ms <= BaseDelay(attempt) + 1000
       /\ (retry.delay.ms = BaseDelay(attempt) + 1000 /\ retry.delay.below = 0)
            => (retry.rnd.half = 2 /\ retry.rnd.below <= 4)
       /\ retry.delay.ms >= 1000 /\ retry.delay.ms <= 6000

\* C18 witness: the capped delay with the largest random value is 6000 ms.
C18_DelayReachesSixThousand ==
  /\ pc = "backedOff" /\ attempt >= 3
  /\ retry.delay = [ms |-> 6000, below |-> 0]

C20_ResolvedOnlyByReply ==
  [][ApplyStep =>
       /\ (~comment.resolved /\ comment'.resolved)
            => /\ pc = "resolve"
               /\ Len(comment'.replies) = Len(comment.replies) + 1
               /\ comment'.replies[Len(comment'.replies)].action = "resolve"
       /\ pc \in {"acceptUpdate", "rejectUpdate"}
            => comment' = [comment EXCEPT !.content = comment'.content]]_vars

\* C20 witness: an accept call resolved the comment through its reply.
C20_ResolvedThroughReply ==
  /\ pc = "done" /\ args.accepted /\ ~hist.interfered
  /\ comment.resolved
  /\ Len(comment.replies) = 1 /\ comment.replies[1].action = "resolve"

\* C21: getAIComments returns a comment exactly when its state is unprocessed
\* (no marker, an "AI:" content, a quoted text) or REJECTED, it is not
\* resolved and its quoted text is not empty.
C21_EligibleIffReturned ==
  (pc = "listed" /\ outcome # "throw")
    => LET hasText == comment.hasQuoted /\ comment.quoted # <<>>
           unprocessed == outcome = NoState /\ StartsWithAI(comment.content) /\ hasText
           eligible == /\ unprocessed \/ outcome = "REJECTED"
                       /\ ~comment.resolved
                       /\ hasText
       IN (comment \in retry.returned) <=> eligible

\* C22: getCommentState returns a marker of the most recent reply that
\* includes one (the first of ACCEPTED, PROCESSING, REJECTED it includes),
\* whatever the older replies hold, and null exactly when no reply includes
\* a marker.
C22_NewestMarkerWins ==
  (pc = "listed" /\ outcome # "throw")
    => LET k == LastMarked(comment.replies, Len(comment.replies))
       IN /\ (k = 0) <=> (outcome = NoState)
          /\ k > 0 => /\ outcome \in comment.replies[k].markers
                      /\ outcome = FirstMarkerIn(comment.replies[k].markers)
          /\ (\A i \in 1..Len(comment.replies) : comment.replies[i].markers = {})
               <=> (outcome = NoState)

\* C22 witness: an older reply marked ACCEPTED, a newer one marked REJECTED,
\* and REJECTED is the state.
C22_OlderMarkerOverridden ==
  /\ pc = "listed" /\ outcome = "REJECTED"
  /\ Len(comment.replies) = 2
  /\ comment.replies[1].markers = {"ACCEPTED"}
  /\ comment.replies[2].markers = {"REJECTED"}

\* C23: when the comment a call fetches is resolved, the call ends there with
\* an error, for accept and for reject: the step changes neither the document
\* nor the comment, and the call has made no mutation and asked the store for
\* no write.
C23_ResolvedIsRefused ==
  [][(ApplyStep /\ pc = "getComment" /\ comment.resolved)
       => /\ pc' = "done" /\ outcome' = "throw"
          /\ doc' = doc /\ comment' = comment
          /\ ~hist'.mutated /\ ~hist'.storeAsked]_vars

\* C23 witness: a reject call for a resolved comment ended with the error,
\* the store answering every call.
C23_ResolvedRejectRefused ==
  /\ pc = "done" /\ outcome = "throw" /\ ~args.accepted
  /\ ~MissingParameters(args)
  /\ comment.resolved /\ comment.content = AIContent
  /\ ~hist.faults /\ ~hist.interfered /\ hist.prevCall = "none"

\* C24: a reject call for an existing, unresolved comment with a quoted text
\* returns success and leaves the REJECTED content in the comment when the
\* store answers every call, whatever the replacement text is (empty or not)
\* and whether or not the quoted text can be located in the document.
C24_RejectNeedsOnlyDecision ==
  (/\ pc = "done" /\ ~args.accepted /\ args.commentId = "c1"
   /\ ~comment.resolved /\ comment.hasQuoted /\ comment.quoted # <<>>
   /\ ~hist.faults /\ ~hist.interfered)
    => (outcome = "true" /\ comment.content = RejectedContent)

\* C25: when a restoration of the original text was attempted and threw, the
\* error the call ends with states that the original text could not be
\* restored.
C25_RollbackFailureSurfaced ==
  (pc = "done" /\ outcome = "throw" /\ hist.rollbackFailed) => restoreError

\* C26: every running applyAIEdit call reaches a terminal outcome (true,
\* undefined or a throw); a step either moves to a later step or is one more
\* pass of the retry loop, which makes at most 3 passes.
C26_CallTerminates ==
  /\ [](Running => <>(pc = "done"))
  /\ [](pc = "done" => outcome \in {"true", "undefined", "throw"})
  /\ [](attempt <= 3)
  /\ [][RunningStep =>
          \/ StepRank(pc') > StepRank(pc)
          \/ /\ pc' = pc /\ pc \in {"acceptUpdate", "rejectUpdate"}
             /\ attempt' = attempt + 1]_vars

\* C26 witness: a reject call ended after three failed passes of the retry
\* loop.
C26_ThreePassesThenEnd ==
  /\ pc = "done" /\ ~args.accepted /\ outcome = "throw"
  /\ attempt = 3 /\ hist.updateExhausted

\* C27: the score of calculateSimilarity lies in [0, 1], is the same for both
\* orders of the arguments, and is 1 whenever the two strings are equal after
\* normalization (white space collapsed, trimmed, lower case).
C27_SimilarityContract ==
  pc = "compared"
    => /\ retry.score.den > 0
       /\ 0 <= retry.score.num /\ retry.score.num <= retry.score.den
       /\ retry.score.num * retry.swapped.den = retry.swapped.num * retry.score.den
       /\ NormalizeForScore(retry.str1) = NormalizeForScore(retry.str2)
            => retry.score.num = retry.score.den

\* C28: the score is 1 when both strings are empty and 0 when exactly one of
\* them is empty.
C28_EmptyInputs ==
  pc = "compared"
    => /\ (retry.str1 = <<>> /\ retry.str2 = <<>>) => retry.score.num = retry.score.den
       /\ ((retry.str1 = <<>>) # (retry.str2 = <<>>)) => retry.score.num = 0

\* C29: the resolver gives the same outcome and location for the comment
\* with any other anchor value (fresh, stale or absent), and a comment
\* without an anchor whose quoted text occurs once is resolved.
C29_AnchorIndependent ==
  (pc = "resolved" /\ ~hist.faults)
    => /\ \A a \in Anchors :
            LET r == verifyTextLocation(TRUE, [comment EXCEPT !.anchor = a,
                                                             !.hasAnchor = HasAnchor(a)],
                                        doc, originalText)
            IN /\ outcome = IF r.success THEN "success" ELSE r.error
               /\ location = r.location
       /\ (comment.anchor = "" /\ Len(Found) = 1) => outcome = "success"

\* C30: a retryCommentUpdate call with a missing file id, comment id or
\* content returns the failure "Invalid parameters" at once, with no attempt
\* (no fetch, no update) and no sleep; an applyAIEdit call with a malformed
\* comment id ends with an error at its validation step, with no document
\* mutation and no store write.
C30_InvalidInputSurfaced ==
  /\ (/\ retry.active /\ pc # "retryEntry"
      /\ retry.fileId = "" \/ retry.commentId = "" \/ retry.content = EmptyContent)
       => /\ pc = "retryReturned"
          /\ retry.result = "failure" /\ retry.error = "Invalid parameters"
          /\ retry.attempts = <<>> /\ retry.sleeps = <<>> /\ attempt = 0
  /\ (~retry.active /\ pc # "idle" /\ args.commentId \in {"", NonStringId})
       => /\ pc \in {"validate", "done"}
          /\ pc = "done" => outcome = "throw"
          /\ ~hist.mutated /\ ~hist.storeAsked /\ ~hist.faults
          /\ doc = hist.docAtStart

\* C30 witness: a retryCommentUpdate call without a comment id has returned
\* the failure.
C30_MissingIdReturned ==
  /\ pc = "retryReturned" /\ retry.active /\ retry.commentId = ""
  /\ retry.content # EmptyContent
  /\ retry.result = "failure" /\ retry.attempts = <<>>

\* C31: when the comment a call fetches has an empty or missing quoted text,
\* the call ends at that step with an error: it never reaches the resolver,
\* and it has changed neither the document nor the comment and asked the
\* store for no write.
C31_EmptyQuoteRefused ==
  [][(ApplyStep /\ pc = "getComment" /\ (~comment.hasQuoted \/ comment.quoted = <<>>))
       => /\ pc' = "done" /\ outcome' = "throw"
          /\ doc' = doc /\ comment' = comment
          /\ location' = NoLocation /\ hist'.locateError = ""
          /\ ~hist'.mutated /\ ~hist'.storeAsked]_vars

\* C31 witness: an accept call for an unresolved comment whose quoted text
\* is the empty string ended with the error, the store answering every call.
C31_EmptyQuoteAcceptRefused ==
  /\ pc = "done" /\ outcome = "throw" /\ args.accepted /\ args.commentId = "c1"
  /\ sanitizeText(args.suggestedText) # <<>>
  /\ comment.hasQuoted /\ comment.quoted = <<>> /\ ~comment.resolved
  /\ ~hist.faults /\ ~hist.interfered /\ doc = hist.docAtStart

\* Every character of the replacement text of the call is one that
\* sanitizeText removes: a control character or white space.
BlankReplacement ==
  \A i \in 1..Len(args.suggestedText) :
    IsControl(args.suggestedText[i]) \/ IsSpace(args.suggestedText[i])

\* C32: when every character of the replacement text is a control character
\* or white space (the sanitized text is empty), no step of an accept call
\* changes the document or the comment, and the call ends with an error
\* without having reached the mutation.
C32_EmptyReplacementAborts ==
  /\ [][(ApplyStep /\ Running /\ args.accepted /\ BlankReplacement)
          => (doc' = doc /\ comment' = comment /\ pc' \in {"getComment", "locate", "done"})]_vars
  /\ []((pc = "done" /\ args.accepted /\ BlankReplacement)
          => (outcome = "throw" /\ ~hist.mutated /\ ~hist.storeAsked))

\* C32 witness: an accept call whose replacement is one control character
\* ended with the error after the resolver had found the quoted text.
C32_ControlOnlyAborted ==
  /\ pc = "done" /\ outcome = "throw" /\ args.accepted
  /\ args.suggestedText = <<CTRL>>
  /\ location # NoLocation /\ hist.locateError = ""
  /\ ~hist.faults /\ ~hist.interfered /\ doc = hist.docAtStart

\* C33: in every attempt of retryCommentUpdate the update is submitted only
\* after the fetch of that attempt answered with the comment; when the store
\* does not hold the comment, no attempt submits an update, the comment stays
\* as it is and the call returns failure.
C33_UpdateOnlyAfterFetch ==
  retry.active
    => /\ \A k \in 1..Len(Att) :
            Att[k].sent => (Att[k].fetched /\ Att[k].env.kind # "getThrows")
       /\ ~comment.exists
            => /\ \A k \in 1..Len(Att) : ~Att[k].sent /\ ~Att[k].fetched
               /\ pc = "retryReturned" => retry.result = "failure"

\* C33 witness: a call with valid parameters for a comment the store does
\* not hold returned failure after three attempts, and a fetch that threw
\* was followed by no update.
C33_MissingRecordFailed ==
  /\ pc = "retryReturned" /\ retry.active /\ ~comment.exists
  /\ retry.fileId # "" /\ retry.commentId # "" /\ retry.content # EmptyContent
  /\ Len(Att) = 3 /\ retry.result = "failure"
  /\ retry.error = "Failed to get comment"

\* C34: when the quoted text occurs more than once and verifyTextLocation
\* returns a location, it is the location of an occurrence whose context
\* score is at least the score of every other occurrence, and every earlier
\* occurrence scores strictly less.
C34_HighestScoreEarliest ==
  (pc = "resolved" /\ outcome = "success" /\ Len(Found) > 1)
    => \E i \in 1..Len(Found) :
         /\ location = LocationOf(Found[i])
         /\ \A j \in 1..Len(Found) : ~ScoreGt(ScoreOf(j), ScoreOf(i))
         /\ \A j \in 1..Len(Found) : (ScoreOf(j) = ScoreOf(i)) => j >= i

\* C34 witness: three occurrences, the first scores lowest, the second and
\* the third score the same, and the second is returned.
C34_TieGoesToEarlier ==
  /\ pc = "resolved" /\ outcome = "success" /\ Len(Found) = 3
  /\ ScoreGt(ScoreOf(2), ScoreOf(1))
  /\ ScoreOf(3) = ScoreOf(2)
  /\ location = LocationOf(Found[2])

\* C35: within an accept call the catch block enters its restoration (the
\* replaceText of the original text) only when this call changed the
\* document and has not written the original text back yet.
C35_RollbackOnlyAfterMutation ==
  [][(ApplyStep /\ pc = "catch" /\ CatchRestores)
       => (hist.mutated /\ ~hist.rolledBack)]_vars

\* C36: when a first accept call that changed the document has ended, with
\* no other editor at work and a document that did what it was asked, the
\* comment and the document agree: a comment whose content is the ACCEPTED
\* text goes with the replacement at the resolved span, and a call that
\* threw after writing the original text back leaves no ACCEPTED content.
C36_RecordAgreesWithDocument ==
  (/\ pc = "done" /\ args.accepted /\ hist.mutated
   /\ ~hist.interfered /\ ~hist.docFaults /\ hist.prevCall = "none")
    => /\ comment.content.kind = "ACCEPTED"
            => ReadBack(ElementText, location, sanitizedText) = sanitizedText
       /\ (outcome = "throw" /\ hist.rolledBack)
            => comment.content.kind # "ACCEPTED"

\* The sleeps of the call so far, added up: ms - below * 2^-53.
RECURSIVE SumDelays(_, _)
SumDelays(sleeps, n) ==
  IF n = 0 THEN [ms |-> 0, below |-> 0]
  ELSE LET rest == SumDelays(sleeps, n - 1)
       IN [ms |-> rest.ms + sleeps[n].ms, below |-> rest.below + sleeps[n].below]

TotalSleep == SumDelays(retry.sleeps, Len(retry.sleeps))

\* The failed attempts so far that were not the third one.
FailedBeforeLast == {k \in 1..Len(Att) : ~Att[k].passed /\ k < 3}

\* C37 (as claimed): between attempts and at the return, the call has slept
\* once for each failed attempt that was not the last; it has not slept when
\* the first attempt passed; and when the first two attempts failed the
\* sleeps add up to at least 3000 ms and to less than 5000 ms.
C37_TwoSleepsBelowFiveThousand ==
  (retry.active /\ pc \in {"retryAttempt", "retryReturned"})
    => /\ Len(retry.sleeps) = Cardinality(FailedBeforeLast)
       /\ (Len(Att) >= 1 /\ Att[1].passed) => TotalSleep = [ms |-> 0, below |-> 0]
       /\ (Len(Att) >= 2 /\ ~Att[1].passed /\ ~Att[2].passed)
            => /\ TotalSleep.ms >= 3000
               /\ TotalSleep.ms = 3000 => TotalSleep.below = 0
               /\ TotalSleep.ms <= 5000
               /\ TotalSleep.ms = 5000 => TotalSleep.below > 0

\* C37 (amended): between attempts and at the return, the call has slept
\* once for each failed attempt that was not the last; it has not slept when
\* the first attempt passed; and when the first two attempts failed the
\* sleeps add up to at least 3000 ms and at most 5000 ms, both reached.
C37_TwoSleepsWithinClosedBounds ==
  (retry.active /\ pc \in {"retryAttempt", "retryReturned"})
    => /\ Len(retry.sleeps) = Cardinality(FailedBeforeLast)
       /\ (Len(Att) >= 1 /\ Att[1].passed) => retry.sleeps = <<>>
       /\ (Len(Att) >= 2 /\ ~Att[1].passed /\ ~Att[2].passed)
            => /\ Len(retry.sleeps) = 2
               /\ TotalSleep.ms >= 3000
               /\ TotalSleep.ms = 3000 => TotalSleep.below = 0
               /\ TotalSleep.ms <= 5000

\* C37 witness: three attempts failed, the call slept twice, 2000 ms and
\* 3000 ms, and returned the failure.
C37_SleptFiveThousand ==
  /\ pc = "retryReturned" /\ retry.result = "failure" /\ Len(Att) = 3
  /\ Len(retry.sleeps) = 2
  /\ TotalSleep = [ms |-> 5000, below |-> 0]

\* C38: sanitizing a sanitized text gives the same text, for every text,
\* line separators included.
C38_SanitizeIdempotent ==
  pc = "sanitizedTwice" => retry.twice = retry.once

\* C39: a call of applyAIEdit that ended without throwing returned true.
C39_ReturnsTrueUnlessThrown ==
  (pc = "done" /\ outcome # "throw") => outcome = "true"

=====================
